---- MODULE Spec2Model ----
(***************************************************************************)
(* Model of the word analyzer: the Zipf cost dictionary and the dynamic-   *)
(* programming text splitter of analyzer/lib/text_splitter.py, and the     *)
(* total cost, leet clearing, repeated-part detection and correction of    *)
(* analyzer/lib/word_analyzer.py.                                          *)
(*                                                                         *)
(* A text is a sequence of one-character strings.  A cost is an integer    *)
(* number of thousandths (the code's floats, rounded to 1e-3); the float   *)
(* infinity 9e999 is the value Inf, which absorbs every addition.          *)
(***************************************************************************)
EXTENDS Integers, Sequences, FiniteSets, TLC

VARIABLES
    frequency_words,            \* the argument handed to TextSplitter(words)
    status,                     \* "new", "ok" (constructed) or "failed"
    word_cost,                  \* self.word_cost: word -> cost
    max_len,                    \* self.max_len of the splitter
    threshold,                  \* analyzer.threshold
    number_of_corrected_words,  \* analyzer.number_of_corrected_words
    op,                         \* the operation called last
    pc,                         \* position inside that call
    arg,                        \* its argument, a Python value
    text,                       \* split: the text
    cost,                       \* split: the cost array, cost[k+1] is cost[k] of the code
    i,                          \* split: loop variable
    index,                      \* split: argument of the last best_match call
    match_cost,                 \* split: first component of the last best_match result
    match_length,               \* split: second component of the last best_match result
    out,                        \* split: tokens collected backwards
    tokens,                     \* split: the returned list
    total,                      \* _get_total_cost: the returned sum
    analyzer,                   \* TRUE once WordAnalyzer.build has returned
    top,                        \* TRUE once WordAnalyzer(...) of analyzer/word_analyzer.py exists
    tree,                       \* self.tree / analyzer.tree: the BK-tree
    file,                       \* the content of the tree file on disk
    returned,                   \* build_bk_tree: the tree it returned
    built,                      \* build_bk_tree: TRUE if the call built a BKTree
    divisors,                   \* analyzer.divisors: length -> list of divisors
    word,                       \* the local variable word of the analyzer call
    indices,                    \* _get_clear_word: indices
    key,                        \* _get_clear_word: the round
    all_combinations,           \* _get_clear_word: the sets of indexes to score
    minimal_cost,               \* _get_clear_word: minimal_cost
    cleared_word,               \* _get_clear_word: cleared_word
    repeated,                   \* _detect_repeated_word: the returned part, or none
    clear_word,                 \* _get_correct_words: the argument clear_word
    cleaned,                    \* _get_correct_words: word after line 251
    parts,                      \* _get_correct_words: parts
    evaluated_words,            \* _get_correct_words: evaluated_words
    corrects,                   \* _get_correct_words: the returned set
    error,                      \* the exception raised: "none" or its type
    error_line                  \* the source line that raised it, 0 if none

splitVars == <<text, cost, i, index, match_cost, match_length, out, tokens>>
buildVars == <<frequency_words, status, word_cost, max_len, threshold,
               number_of_corrected_words, analyzer, divisors, top, tree, file>>
treeVars == <<returned, built>>
clearVars == <<indices, key, all_combinations, minimal_cost, cleared_word>>
correctVars == <<clear_word, cleaned, parts, evaluated_words, corrects>>
vars == <<buildVars, op, pc, arg, splitVars, total, word, clearVars, repeated,
          correctVars, treeVars, error, error_line>>

----------------------------------------------------------------------------
(* Bounds of the model *)

\* longest text handed to an operation (besides the listed extra inputs)
MaxTextLen == 3
\* largest analyzer.threshold configured
MaxThreshold == 3
\* largest analyzer.number_of_corrected_words configured
MaxCorrected == 2

----------------------------------------------------------------------------
(* Python values *)

Str(s) == [isstr |-> TRUE, s |-> s]
NotStr == [isstr |-> FALSE, s |-> <<>>]
List(items) == [kind |-> "list", items |-> items]
None == [kind |-> "None", items |-> <<>>]

Max(a, b) == IF a >= b THEN a ELSE b
Min(a, b) == IF a <= b THEN a ELSE b
Range(s) == {s[k] : k \in 1..Len(s)}
Reverse(s) == [k \in 1..Len(s) |-> s[Len(s) + 1 - k]]

TextsOver(alphabet, n) == UNION {[1..k -> alphabet] : k \in 0..n}

\* str.lower on one character, for the characters of the model
LowerChar(c) == CASE c = "A" -> "a" [] c = "B" -> "b" [] c = "T" -> "t" [] OTHER -> c
Lower(s) == [k \in 1..Len(s) |-> LowerChar(s[k])]

\* code points, for Python's ordering of strings
Ord(c) ==
    CASE c = "1" -> 49 [] c = "3" -> 51 [] c = "A" -> 65 [] c = "B" -> 66
      [] c = "T" -> 84 [] c = "a" -> 97 [] c = "b" -> 98 [] c = "d" -> 100
      [] c = "e" -> 101 [] c = "f" -> 102 [] c = "h" -> 104 [] c = "i" -> 105
      [] c = "n" -> 110 [] c = "o" -> 111 [] c = "s" -> 115 [] c = "t" -> 116
      [] c = "x" -> 120 [] OTHER -> 0

\* a < b on Python strings
StrLess(a, b) ==
    \E k \in 1..(Min(Len(a), Len(b)) + 1) :
        /\ \A m \in 1..(k - 1) : a[m] = b[m]
        /\ \/ k > Len(a) /\ k <= Len(b)
           \/ k <= Len(a) /\ k <= Len(b) /\ Ord(a[k]) < Ord(b[k])

RECURSIVE Concat(_)
\* ''.join(parts)
Concat(ps) == IF ps = <<>> THEN <<>> ELSE Head(ps) \o Concat(Tail(ps))

----------------------------------------------------------------------------
(* Costs *)

\* 9e999, the float infinity, in thousandths
Inf == 1000000000
\* analyzer.default_cost = 1000, in thousandths
default_cost == 1000000

\* float addition with infinity
Add(a, b) == IF a = Inf \/ b = Inf THEN Inf ELSE a + b

\* log((number + 1) * log(n)) in thousandths, rounded; for n = 1 the inner
\* log is 0 and math.log raises ValueError (see LogDefined)
LogTable ==
    [n \in 2..5 |->
        CASE n = 2 -> <<-367, 327>>
          [] n = 3 -> <<94, 787, 1193>>
          [] n = 4 -> <<327, 1020, 1425, 1713>>
          [] n = 5 -> <<476, 1169, 1574, 1862, 2085>>]
ZipfCost(number, n) == LogTable[n][number + 1]
\* log(x) is defined for x > 0 only: (number + 1) * log(n) > 0 iff n > 1
LogDefined(n) == n > 1

----------------------------------------------------------------------------
(* TextSplitter.__init__ *)

AllStr(words) == \A k \in 1..Len(words.items) : words.items[k].isstr
Strings(words) == [k \in 1..Len(words.items) |-> words.items[k].s]

\* a variant without the check of the element types
CtorErrorNoTypeCheck(words) ==
    IF words.kind = "None" \/ words.items = <<>> THEN <<"ValueError", 17>>
    ELSE IF ~LogDefined(Len(words.items)) THEN <<"ValueError", 24>>
    ELSE <<"none", 0>>
\* the exception the constructor raises for words, with its line
CtorError(words) ==
    IF words.kind = "None" \/ words.items = <<>> THEN <<"ValueError", 17>>
    ELSE IF ~AllStr(words) THEN <<"TypeError", 21>>
    ELSE IF ~LogDefined(Len(words.items)) THEN <<"ValueError", 24>>
    ELSE <<"none", 0>>

\* dict((word, cost) for number, word in enumerate(words)): a later
\* occurrence of a word replaces the earlier entry
BuildWordCost(ws) ==
    [w \in Range(ws) |->
        LET last == CHOOSE k \in 1..Len(ws) :
                        ws[k] = w /\ \A m \in (k + 1)..Len(ws) : ws[m] # w
        IN  ZipfCost(last - 1, Len(ws))]
BuildMaxLen(ws) ==
    CHOOSE n \in {Len(ws[k]) : k \in 1..Len(ws)} :
        \A k \in 1..Len(ws) : Len(ws[k]) <= n

NoCost == [w \in {} |-> 0]

\* WordAnalyzer.__init__ of analyzer/word_analyzer.py, for a valid list words:
\* its own checks of frequency_words, then TextSplitter(frequency_words)
AnalyzerCtorError(words) ==
    IF words.kind # "list" THEN <<"TypeError", 22>>
    ELSE IF words.items = <<>> THEN <<"ValueError", 26>>
    ELSE IF ~AllStr(words) THEN <<"TypeError", 31>>
    ELSE CtorError(words)

----------------------------------------------------------------------------
(* TextSplitter.split *)

\* a variant that accepts every value as a string
IsStrAlways(v) == TRUE
\* isinstance(text, str)
IsStr(v) == v.isstr

\* word_cost.get(word, dflt)
CostGet(wd, dflt) == IF wd \in DOMAIN word_cost THEN word_cost[wd] ELSE dflt

\* the candidates of best_match(idx): (cost, length) for every match_length
\* enumerated over reversed(cost[max(0, idx - max_len):idx])
Candidates(cst, txt, idx) ==
    {<<Add(cst[idx - ml], CostGet(Lower(SubSeq(txt, idx - ml, idx)), Inf)), ml + 1>> :
        ml \in 0..(idx - Max(0, idx - max_len) - 1)}

PairLeq(p, q) == p[1] < q[1] \/ (p[1] = q[1] /\ p[2] <= q[2])
\* a variant that takes the largest pair
MaxPair(S) == CHOOSE p \in S : \A q \in S : PairLeq(q, p)
\* a variant of min that keeps the longest match among equal costs
MinPairLongest(S) ==
    CHOOSE p \in S : \A q \in S : p[1] < q[1] \/ (p[1] = q[1] /\ p[2] >= q[2])
\* min(costs) on tuples
MinPair(S) == CHOOSE p \in S : \A q \in S : PairLeq(p, q)

best_match(cst, txt, idx) == MinPair(Candidates(cst, txt, idx))

\* text[i - match_length:i], lower-cased: a variant of Token
TokenLower(txt, ii, ml) == Lower(SubSeq(txt, ii - ml + 1, ii))
\* text[i - match_length:i]
Token(txt, ii, ml) == SubSeq(txt, ii - ml + 1, ii)

\* min() of an empty sequence raises ValueError: the window is empty when
\* max_len = 0
CanSplit(txt) == max_len > 0 \/ txt = <<>>

RECURSIVE ForwardPass(_, _)
\* the cost array after the forward loop
ForwardPass(txt, cst) ==
    IF Len(cst) = Len(txt) + 1 THEN cst
    ELSE ForwardPass(txt, Append(cst, best_match(cst, txt, Len(cst))[1]))

RECURSIVE Backtrack(_, _, _, _)
\* the backtracking loop and the final reversal
Backtrack(txt, cst, ii, o) ==
    IF ii <= 0 THEN Reverse(o)
    ELSE LET bm == best_match(cst, txt, ii)
         IN  Backtrack(txt, cst, ii - bm[2], Append(o, Token(txt, ii, bm[2])))

\* split(text) as one value, for the callers of the splitter
Split(txt) == Backtrack(txt, ForwardPass(txt, <<0>>), Len(txt), <<>>)

----------------------------------------------------------------------------
(* WordAnalyzer._get_total_cost *)

RECURSIVE SumCosts(_)
\* sum([word_cost.get(word, default_cost) for word in parts]); the token is
\* looked up as it is, not lower-cased
SumCosts(ps) ==
    IF ps = <<>> THEN 0 ELSE CostGet(Head(ps), default_cost) + SumCosts(Tail(ps))

TotalCost(txt) == SumCosts(Split(txt))

----------------------------------------------------------------------------
(* analyzer.lib.methods: get_indices_incorrect_symbols, leet_transform and *)
(* factorize, as the specification describes them                           *)

Letters == {"A", "B", "T", "a", "b", "d", "e", "f", "h", "i", "n", "o", "s", "t", "x"}
\* isIncorrectSymbol: a non-alphabetic character
IsIncorrectSymbol(c) == c \notin Letters
\* positions (from 0) of the incorrect symbols of the word
get_indices_incorrect_symbols(w) == {k - 1 : k \in {m \in 1..Len(w) : IsIncorrectSymbol(w[m])}}
\* the substitution table: '1' -> 'i', '3' -> 'e'; other characters stay
LeetChar(c) == CASE c = "1" -> "i" [] c = "3" -> "e" [] OTHER -> c
\* the word with the substitution applied at exactly the positions of comb
leet_transform(w, comb) ==
    [k \in 1..Len(w) |-> IF (k - 1) \in comb THEN LeetChar(w[k]) ELSE w[k]]
\* the divisors of n below n, ascending
factorize(n) ==
    LET ds == {d \in 1..(n - 1) : n % d = 0}
        nth[k \in 1..Cardinality(ds)] ==
            CHOOSE d \in ds : Cardinality({e \in ds : e < d}) = k - 1
    IN  [k \in 1..Cardinality(ds) |-> nth[k]]

----------------------------------------------------------------------------
(* WordAnalyzer._get_clear_word *)

\* costs_indexes[:5]
BeamWidth == 5

\* costs_indexes of one round: [total_cost, set(combination), prepared_str]
Scored(w, combos) ==
    {[cost |-> TotalCost(Lower(leet_transform(w, c))), comb |-> c,
      str |-> leet_transform(w, c)] : c \in combos}

\* The sort compares equal-cost entries by their sets, which are never
\* subsets of each other within a round, so equal-cost entries keep the
\* iteration order of a Python set of tuples: any order.  Kept(sc) are the
\* possible costs_indexes[:5], each with the possible costs_indexes[0].
Kept(sc) ==
    LET n == Min(BeamWidth, Cardinality(sc))
        cut == CHOOSE c \in {a.cost : a \in sc} :
                   /\ Cardinality({a \in sc : a.cost < c}) < n
                   /\ Cardinality({a \in sc : a.cost <= c}) >= n
        lower == {a \in sc : a.cost < cut}
        ties == {a \in sc : a.cost = cut}
        Ks == {lower \cup T : T \in {T \in SUBSET ties :
                                       Cardinality(T) = n - Cardinality(lower)}}
    IN  UNION {{[kept |-> K, first |-> f] :
                  f \in {a \in K : \A b \in sc : a.cost <= b.cost}} : K \in Ks}

\* a variant that adds every index, those of the set too
ExpandEvery(K, inds) == {c.comb \cup {x} : c \in K, x \in inds}
\* the new sets of indexes: each kept set with one more index
Expand(K, inds) == {c.comb \cup {x} : c \in K, x \in inds}
                       \ {c.comb : c \in K}

\* a variant that keeps the first word found
ClearRoundKeepFirst(w, inds, r) ==
    {[key |-> r.key + 1,
      all_combinations |-> Expand(k.kept, inds),
      minimal_cost |-> IF r.key = 0 THEN k.first.cost ELSE r.minimal_cost,
      cleared_word |-> IF r.key = 0 THEN k.first.str ELSE r.cleared_word] :
        k \in Kept(Scored(w, r.all_combinations))}
\* a variant that replaces the word found on an equal cost too
ClearRoundReplaceOnTie(w, inds, r) ==
    {[key |-> r.key + 1,
      all_combinations |-> Expand(k.kept, inds),
      minimal_cost |-> IF k.first.cost <= r.minimal_cost THEN k.first.cost
                       ELSE r.minimal_cost,
      cleared_word |-> IF k.first.cost <= r.minimal_cost THEN k.first.str
                       ELSE r.cleared_word] :
        k \in Kept(Scored(w, r.all_combinations))}
\* one round of the loop: the states it can end in
ClearRound(w, inds, r) ==
    {[key |-> r.key + 1,
      all_combinations |-> Expand(k.kept, inds),
      minimal_cost |-> IF k.first.cost < r.minimal_cost THEN k.first.cost
                       ELSE r.minimal_cost,
      cleared_word |-> IF k.first.cost < r.minimal_cost THEN k.first.str
                       ELSE r.cleared_word] :
        k \in Kept(Scored(w, r.all_combinations))}

ClearStart ==
    [key |-> 0, all_combinations |-> {{}}, minimal_cost |-> Inf, cleared_word |-> <<>>]

RECURSIVE ClearRun(_, _, _)
\* the states after the rounds key .. len(indices)
ClearRun(w, inds, S) ==
    IF \A r \in S : r.key > Cardinality(inds) THEN S
    ELSE ClearRun(w, inds, UNION {ClearRound(w, inds, r) : r \in S})

\* the words _get_clear_word(w) can return
ClearWords(w) ==
    {r.cleared_word : r \in ClearRun(w, get_indices_incorrect_symbols(w), {ClearStart})}

----------------------------------------------------------------------------
(* WordAnalyzer._detect_repeated_word *)

NoPart == [found |-> FALSE, part |-> <<>>]

\* a variant that compares the first chunk only
IsRepeatFirstChunk(w, d) == SubSeq(w, 1, Min(d, Len(w))) = SubSeq(w, 1, d)
\* the inner loop: every chunk word[start:start + divisor] equals the part
IsRepeat(w, d) ==
    \A start \in {s \in 0..(Len(w) - 1) : s % d = 0} :
        SubSeq(w, start + 1, Min(start + d, Len(w))) = SubSeq(w, 1, d)

\* the repeated part of w for the divisor table divs, or none
DetectRepeatedWord(w, divs) ==
    IF Len(w) = 0 THEN NoPart
    ELSE IF Len(w) \notin DOMAIN divs THEN NoPart
    ELSE IF divs[Len(w)] = <<>> THEN NoPart
    ELSE LET ds == divs[Len(w)]
             hits == {k \in 1..Len(ds) : IsRepeat(w, ds[k])}
         IN  IF hits = {} THEN NoPart
             ELSE LET k == CHOOSE h \in hits : \A g \in hits : h <= g
                  IN  [found |-> TRUE, part |-> SubSeq(w, 1, ds[k])]

----------------------------------------------------------------------------
(* WordAnalyzer._get_similar_words *)

\* the configured Damerau distance and number of similar words (defaults)
distance == 1
number_similar_words == 4

RECURSIVE Osa(_, _, _, _)
\* edit distance with insertions, deletions, substitutions and adjacent
\* transpositions between a[1..m] and b[1..n]; up to distance 1 the
\* restricted and the unrestricted Damerau distances agree
Osa(a, b, m, n) ==
    IF m = 0 THEN n
    ELSE IF n = 0 THEN m
    ELSE LET sub == Osa(a, b, m - 1, n - 1) + (IF a[m] = b[n] THEN 0 ELSE 1)
             del == Osa(a, b, m - 1, n) + 1
             ins == Osa(a, b, m, n - 1) + 1
             best == Min(sub, Min(del, ins))
         IN  IF m > 1 /\ n > 1 /\ a[m] = b[n - 1] /\ a[m - 1] = b[n]
             THEN Min(best, Osa(a, b, m - 2, n - 2) + 1)
             ELSE best
DamerauDistance(a, b) == Osa(a, b, Len(a), Len(b))

----------------------------------------------------------------------------
(* The BK-tree and its file *)

\* A tree is a function from paths to items: the root is at the empty path
\* and the child of the node at p under the distance d is at Append(p, d).
NoTree == [p \in {} |-> <<>>]

RECURSIVE BkAdd(_, _, _)
\* BKTree.add(item), from the node at path p
BkAdd(t, p, item) ==
    LET d == DamerauDistance(item, t[p])
    IN  IF Append(p, d) \in DOMAIN t THEN BkAdd(t, Append(p, d), item)
        ELSE t @@ (Append(p, d) :> item)

RECURSIVE BkAddAll(_, _)
BkAddAll(t, items) ==
    IF items = <<>> THEN t
    ELSE IF DOMAIN t = {} THEN BkAddAll(<<>> :> Head(items), Tail(items))
    ELSE BkAddAll(BkAdd(t, <<>>, Head(items)), Tail(items))
\* bk.BKTree(Damerau().distance, items)
BKTree(items) == BkAddAll(NoTree, items)

\* the file: missing, empty, text that is no pickle, or the pickle of an object
MissingFile == [kind |-> "missing", cls |-> "", entries |-> {}]
EmptyFile == [kind |-> "empty", cls |-> "", entries |-> {}]
TextFile == [kind |-> "text", cls |-> "", entries |-> {}]
StrPickle == [kind |-> "pickle", cls |-> "str", entries |-> {}]
\* pickle.dump(tree, file): the nodes of the tree, written one by one
Dump(t) == [kind |-> "pickle", cls |-> "BKTree", entries |-> {<<p, t[p]>> : p \in DOMAIN t}]
\* a variant that reads the root only
LoadRoot(f) == [p \in {<<>>} |-> (CHOOSE e \in f.entries : e[1] = p)[2]]
\* pickle.load(file) of a pickled tree
Load(f) == [p \in {e[1] : e \in f.entries} |-> (CHOOSE e \in f.entries : e[1] = p)[2]]

\* build_bk_tree(filename) with the file f on disk: the exception raised, the
\* tree returned, the file left on disk, and whether a tree was built
BuildBkTreeResult(given, f, ws) ==
    IF given
    THEN IF f.kind # "missing"
         THEN IF f.kind = "empty"
              THEN [error |-> "ValueError", line |-> 99, tree |-> NoTree, file |-> f,
                    built |-> FALSE]
              ELSE IF f.kind = "text"
              THEN [error |-> "UnpicklingError", line |-> 101, tree |-> NoTree,
                    file |-> f, built |-> FALSE]
              ELSE IF f.cls # "BKTree"
              THEN [error |-> "TypeError", line |-> 104, tree |-> NoTree, file |-> f,
                    built |-> FALSE]
              ELSE [error |-> "none", line |-> 0, tree |-> Load(f), file |-> f,
                    built |-> FALSE]
         ELSE [error |-> "none", line |-> 0, tree |-> BKTree(ws),
               file |-> Dump(BKTree(ws)), built |-> TRUE]
    ELSE [error |-> "none", line |-> 0, tree |-> BKTree(ws), file |-> f, built |-> TRUE]

\* the words of the tree
IndexedWords == {tree[p] : p \in DOMAIN tree}
\* tree.find(w, d): every indexed word within distance d
Find(w, d) == {v \in IndexedWords : DamerauDistance(w, v) <= d}

\* [cost, word] < [cost, word] on Python lists
CostWordLess(a, b) == a.cost < b.cost \/ (a.cost = b.cost /\ StrLess(a.word, b.word))
\* the words of sorted(E)[:n]; entries with the same cost and word are equal
FirstWords(E, n) ==
    {e.word : e \in {e \in E : Cardinality({f \in E : CostWordLess(f, e)}) < n}}

\* the similar words of w (none is the empty set)
SimilarWords(w) ==
    FirstWords({[cost |-> TotalCost(v), word |-> v, at |-> <<>>] : v \in Find(w, distance)},
               number_similar_words)

----------------------------------------------------------------------------
(* WordAnalyzer._get_correct_words *)

minimum_parts == 2

\* parts[a:b] of the code, as a sequence
Slice(ps, a, b) == SubSeq(ps, a + 1, Min(b, Len(ps)))

\* the ranges (i, j) of the two loops
Ranges(n, thr) ==
    {r \in (0..(n - 1)) \X (0..(n + 1)) :
        LET max_range == IF thr <= n - r[1] THEN thr ELSE n - r[1]
        IN  r[1] + minimum_parts <= r[2] /\ r[2] <= max_range + r[1]}

\* a variant that keeps the last probed part: parts[j:] for indices (i, j)
ReplaceKeepLast(ps, similar, ii, jj) ==
    {[cost |-> TotalCost(Concat(Slice(ps, 0, ii) \o <<sw>> \o Slice(ps, jj, Len(ps)))),
      word |-> Concat(Slice(ps, 0, ii) \o <<sw>> \o Slice(ps, jj, Len(ps))),
      at |-> <<ii, jj>>] : sw \in similar}
\* replace_correcting_parts(parts, similar_words, (i, j)): [cost, full_word]
\* for every similar word
replace_correcting_parts(ps, similar, ii, jj) ==
    {[cost |-> TotalCost(Concat(Slice(ps, 0, ii) \o <<sw>> \o Slice(ps, jj + 1, Len(ps)))),
      word |-> Concat(Slice(ps, 0, ii) \o <<sw>> \o Slice(ps, jj + 1, Len(ps))),
      at |-> <<ii, jj>>] : sw \in similar}

\* evaluated_words after the loops over the ranges
EvaluatedWords(ps, thr) ==
    UNION {replace_correcting_parts(ps, SimilarWords(Concat(Slice(ps, r[1], r[2]))),
                                    r[1], r[2] - 1) : r \in Ranges(Len(ps), thr)}

\* evaluated_words when the call returns: nothing is recorded with fewer
\* than minimum_parts parts
Evaluated(ps, thr) == IF Len(ps) < minimum_parts THEN {} ELSE EvaluatedWords(ps, thr)

\* a variant that never appends the fallback
FallbackNever(w) == {}
\* the fallback entry: appended if word is not empty
Fallback(w) == IF w # <<>> THEN {w} ELSE {}

\* a variant of the one-part branch that returns the similar words found
FewPartsKeepSimilar(ps, w, n) ==
    FirstWords(UNION {{[cost |-> TotalCost(sw), word |-> sw, at |-> <<>>] :
                          sw \in SimilarWords(ps[k])} : k \in 1..Len(ps)}, n)
        \cup Fallback(w)
\* the branch len(parts) < minimum_parts: the similar words collected in arr
\* are replaced by sorted(evaluated_words)[:n], and evaluated_words is empty
FewParts(ps, w, n) == FirstWords({}, n) \cup Fallback(w)

\* the word after the collapse of a repeated part
Collapsed(cl, divs) ==
    IF DetectRepeatedWord(cl, divs).found THEN DetectRepeatedWord(cl, divs).part ELSE cl

\* the set returned for the cleaned word cl
CorrectWords(cl, divs, thr, n) ==
    LET w == Collapsed(cl, divs)
        ps == Split(w)
    IN  IF Len(ps) < minimum_parts THEN FewParts(ps, w, n)
        ELSE FirstWords(EvaluatedWords(ps, thr), n) \cup Fallback(w)

----------------------------------------------------------------------------
(* WordAnalyzer of analyzer/word_analyzer.py: get_total_cost, get_clear_word, *)
(* get_similar_words and get_correct_words                                   *)

\* self.default_cost = 100, in thousandths
top_default_cost == 100000

RECURSIVE SumCostsTop(_)
SumCostsTop(ps) ==
    IF ps = <<>> THEN 0 ELSE CostGet(Head(ps), top_default_cost) + SumCostsTop(Tail(ps))
\* get_total_cost(text)
get_total_cost(txt) == SumCostsTop(Split(txt))

\* get_all_combinations(indices): every non-empty set of the indices
get_all_combinations(inds) == (SUBSET inds) \ {{}}

\* the words get_clear_word(w) can return: the combinations are scored in
\* the order of get_all_combinations, the empty one last, and a word is
\* replaced on a strictly lower cost only
get_clear_word(w) ==
    LET combos == get_all_combinations(get_indices_incorrect_symbols(w))
        score(c) == get_total_cost(Lower(leet_transform(w, c)))
        best == {c \in combos : \A d \in combos : score(c) <= score(d)}
    IN  IF \E c \in combos : score(c) <= score({})
        THEN {leet_transform(w, c) : c \in best}
        ELSE {w}

\* get_similar_words(word, number_similar_words=4, distance=1)
get_similar_words(w) ==
    FirstWords({[cost |-> get_total_cost(v), word |-> v, at |-> <<>>] : v \in Find(w, distance)},
               number_similar_words)

\* replace_correcting_parts of get_correct_words: parts[:i] + [similar_word]
\* + parts[j:] for the indices (i, j)
replace_correcting_parts_top(ps, similar, ii, jj) ==
    {[cost |-> get_total_cost(Concat(Slice(ps, 0, ii) \o <<sw>> \o Slice(ps, jj, Len(ps)))),
      word |-> Concat(Slice(ps, 0, ii) \o <<sw>> \o Slice(ps, jj, Len(ps))),
      at |-> <<ii, jj>>] : sw \in similar}

\* evaluated_words of get_correct_words after the loops over the ranges
evaluated_words_top(ps, thr) ==
    UNION {replace_correcting_parts_top(ps, get_similar_words(Concat(Slice(ps, r[1], r[2]))),
                                        r[1], r[2] - 1) : r \in Ranges(Len(ps), thr)}

----------------------------------------------------------------------------
(* The frequency lists and the inputs of the model *)

W_a == <<"a">>
W_b == <<"b">>
W_ab == <<"a", "b">>
W_the == <<"t", "h", "e">>
W_of == <<"o", "f">>
W_and == <<"a", "n", "d">>
W_teh == <<"t", "e", "h">>
W_theh == <<"t", "h", "e", "h">>
W_t == <<"t">>
W_h == <<"h">>
W_i == <<"i">>
W_e == <<"e">>
W_ie == <<"i", "e">>
W_eee11 == <<"e", "e", "e", "1", "1">>
W_33311 == <<"3", "3", "3", "1", "1">>
W_1 == <<"1">>
W_ai == <<"a", "i">>

FW_None == None
FW_Empty == List(<<>>)
FW_NonStr == List(<<Str(W_a), NotStr>>)
FW_OnlyNonStr == List(<<NotStr>>)
FW_One == List(<<Str(W_ab)>>)
FW_Two == List(<<Str(W_b), Str(W_a)>>)
FW_AB == List(<<Str(W_a), Str(W_ab), Str(W_b)>>)
FW_The == List(<<Str(W_the), Str(W_of), Str(W_and)>>)
FW_Dup == List(<<Str(W_a), Str(W_b), Str(W_a)>>)
FW_EmptyStr == List(<<Str(<<>>), Str(<<>>)>>)
FW_Leet == List(<<Str(W_i), Str(W_eee11)>>)
FW_Leet2 == List(<<Str(W_ie), Str(W_e), Str(W_i)>>)
FW_Case == List(<<Str(W_1), Str(W_ai)>>)

\* each frequency list with the alphabet of the texts tried on it, the extra
\* texts, and the longest of the analyzer's words (analyzer.max_len)
Scenarios ==
    { [words |-> FW_None, alphabet |-> {}, extra |-> {}, analyzed_len |-> 1],
      [words |-> FW_Empty, alphabet |-> {}, extra |-> {}, analyzed_len |-> 1],
      [words |-> FW_NonStr, alphabet |-> {}, extra |-> {}, analyzed_len |-> 1],
      [words |-> FW_OnlyNonStr, alphabet |-> {}, extra |-> {}, analyzed_len |-> 1],
      [words |-> FW_One, alphabet |-> {"a", "b"}, extra |-> {}, analyzed_len |-> 2],
      [words |-> FW_Two, alphabet |-> {"a", "b"}, extra |-> {},
       analyzed_len |-> MaxTextLen],
      [words |-> FW_AB, alphabet |-> {"a", "b", "A", "x"}, extra |-> {},
       analyzed_len |-> MaxTextLen],
      [words |-> FW_The, alphabet |-> {"t", "h", "e"}, extra |-> {W_theh},
       analyzed_len |-> MaxTextLen + 1],
      [words |-> FW_Dup, alphabet |-> {"a", "b"}, extra |-> {}, analyzed_len |-> 2],
      [words |-> FW_EmptyStr, alphabet |-> {"a"}, extra |-> {}, analyzed_len |-> 1],
      [words |-> FW_Leet, alphabet |-> {"3", "1", "e"}, extra |-> {W_33311},
       analyzed_len |-> MaxTextLen + 2],
      [words |-> FW_Leet2, alphabet |-> {"3", "1"},
       extra |-> {<<"1", "3", "1", "3">>, <<"3", "3", "1", "1">>},
       analyzed_len |-> MaxTextLen + 1],
      [words |-> FW_Case, alphabet |-> {"A", "1"}, extra |-> {}, analyzed_len |-> 2] }

ScenarioOf(fw) == CHOOSE sc \in Scenarios : sc.words = fw
\* the texts tried on the frequency list fw
Texts(fw) == TextsOver(ScenarioOf(fw).alphabet, MaxTextLen) \cup ScenarioOf(fw).extra
\* the values tried as the text argument: the texts and one non-string
Values(fw) == {Str(t) : t \in Texts(fw)} \cup {NotStr}

NoClear == [given |-> FALSE, s |-> <<>>]
GivenClear(s) == [given |-> TRUE, s |-> s]
\* the values tried as clear_word: none, the empty string, and the word
\* itself handed over as already clear
ClearArgs(w) == {NoClear, GivenClear(<<>>), GivenClear(w)}

----------------------------------------------------------------------------
(* The state machine *)

Init ==
    /\ frequency_words \in {sc.words : sc \in Scenarios}
    /\ status = "new"
    /\ word_cost = NoCost
    /\ max_len = 0
    /\ threshold = 0
    /\ number_of_corrected_words = 0
    /\ analyzer = FALSE
    /\ divisors = <<>>
    /\ top = FALSE
    /\ tree = NoTree
    /\ file = MissingFile
    /\ returned = NoTree
    /\ built = FALSE
    /\ op = "none"
    /\ pc = "idle"
    /\ arg = Str(<<>>)
    /\ text = <<>>
    /\ cost = <<>>
    /\ i = 0
    /\ index = 0
    /\ match_cost = 0
    /\ match_length = 0
    /\ out = <<>>
    /\ tokens = <<>>
    /\ total = 0
    /\ word = <<>>
    /\ indices = {}
    /\ key = 0
    /\ all_combinations = {}
    /\ minimal_cost = Inf
    /\ cleared_word = <<>>
    /\ repeated = NoPart
    /\ clear_word = NoClear
    /\ cleaned = <<>>
    /\ parts = <<>>
    /\ evaluated_words = {}
    /\ corrects = {}
    /\ error = "none"
    /\ error_line = 0

\* the locals of the calls, as a new call finds them
SplitLocals(t, c) ==
    /\ text' = t
    /\ cost' = c
    /\ i' = 0
    /\ index' = 0
    /\ match_cost' = 0
    /\ match_length' = 0
    /\ out' = <<>>
    /\ tokens' = <<>>
ClearLocals(inds, combos) ==
    /\ indices' = inds
    /\ key' = 0
    /\ all_combinations' = combos
    /\ minimal_cost' = Inf
    /\ cleared_word' = <<>>
CorrectLocals ==
    /\ clear_word' = NoClear
    /\ cleaned' = <<>>
    /\ parts' = <<>>
    /\ evaluated_words' = {}
    /\ corrects' = {}
TreeLocals ==
    /\ returned' = NoTree
    /\ built' = FALSE
\* a call starts: nothing is left of the call before it
Enter(name, a) ==
    /\ op' = name
    /\ arg' = a
    /\ error' = "none"
    /\ error_line' = 0
\* the call raises
Raise(name, a, type, line) ==
    /\ op' = name
    /\ arg' = a
    /\ pc' = "raised"
    /\ error' = type
    /\ error_line' = line
Callable == pc = "idle"

\* TextSplitter(words), on its own
Construct ==
    /\ status = "new"
    /\ LET e == CtorError(frequency_words)
       IN  IF e[1] = "none"
           THEN /\ status' = "ok"
                /\ word_cost' = BuildWordCost(Strings(frequency_words))
                /\ max_len' = BuildMaxLen(Strings(frequency_words))
                /\ pc' = "done"
                /\ Enter("init", arg)
           ELSE /\ status' = "failed"
                /\ Raise("init", arg, e[1], e[2])
                /\ UNCHANGED <<word_cost, max_len>>
    /\ UNCHANGED <<frequency_words, threshold, number_of_corrected_words, analyzer,
                   divisors, top, tree, file, splitVars, total, word, clearVars, repeated,
                   correctVars, treeVars>>

\* the name handed as filename_tree or filename, and None for no name
TreeFilename == Str(<<"t">>)
FilenameArg(given) == IF given THEN TreeFilename ELSE NotStr

\* WordAnalyzer(words, frequency_words, filename_tree) of
\* analyzer/word_analyzer.py: the checks, the splitter, then build_bk_tree
ConstructWordAnalyzer(given) ==
    /\ status = "new"
    /\ LET e == AnalyzerCtorError(frequency_words)
           r == BuildBkTreeResult(given, file, Strings(frequency_words))
       IN  IF e[1] # "none"
           THEN /\ status' = "failed"
                /\ Raise("analyzer_init", FilenameArg(given), e[1], e[2])
                /\ UNCHANGED <<word_cost, max_len, top, tree, file, treeVars>>
           ELSE IF r.error # "none"
           THEN /\ status' = "failed"
                /\ Raise("analyzer_init", FilenameArg(given), r.error, r.line)
                /\ UNCHANGED <<word_cost, max_len, top, tree, file, treeVars>>
           ELSE /\ status' = "ok"
                /\ word_cost' = BuildWordCost(Strings(frequency_words))
                /\ max_len' = BuildMaxLen(Strings(frequency_words))
                /\ top' = TRUE
                /\ tree' = r.tree
                /\ file' = r.file
                /\ returned' = r.tree
                /\ built' = r.built
                /\ pc' = "done"
                /\ Enter("analyzer_init", FilenameArg(given))
    /\ UNCHANGED <<frequency_words, threshold, number_of_corrected_words, analyzer,
                   divisors, splitVars, total, word, clearVars, repeated, correctVars>>

\* build_bk_tree(filename), called on the analyzer
BuildBkTree(given) ==
    /\ top /\ Callable
    /\ LET r == BuildBkTreeResult(given, file, Strings(frequency_words))
       IN  /\ IF r.error # "none"
              THEN Raise("build_bk_tree", FilenameArg(given), r.error, r.line)
              ELSE Enter("build_bk_tree", FilenameArg(given)) /\ pc' = "done"
           /\ returned' = r.tree
           /\ built' = r.built
           /\ file' = r.file
    /\ SplitLocals(<<>>, <<>>)
    /\ total' = 0
    /\ word' = <<>>
    /\ ClearLocals({}, {})
    /\ repeated' = NoPart
    /\ CorrectLocals
    /\ UNCHANGED <<frequency_words, status, word_cost, max_len, threshold,
                   number_of_corrected_words, analyzer, divisors, top, tree>>

\* what another program may leave at the name of the tree file
OtherFiles == {MissingFile, EmptyFile, TextFile, StrPickle, Dump(BKTree(<<W_t>>))}
\* the tree file is removed or written by something else between two calls
Overwrite(f) ==
    /\ top /\ Callable
    /\ f # file
    /\ file' = f
    /\ UNCHANGED <<frequency_words, status, word_cost, max_len, threshold,
                   number_of_corrected_words, analyzer, divisors, top, tree>>
    /\ UNCHANGED <<op, pc, arg, splitVars, total, word, clearVars, repeated,
                   correctVars, treeVars, error, error_line>>

\* WordAnalyzer.build(configurator): the splitter, then the configured values
\* and the table of divisors
Build(thr, n) ==
    /\ status = "new"
    /\ LET e == CtorError(frequency_words)
       IN  IF e[1] = "none"
           THEN /\ status' = "ok"
                /\ word_cost' = BuildWordCost(Strings(frequency_words))
                /\ max_len' = BuildMaxLen(Strings(frequency_words))
                /\ threshold' = thr
                /\ number_of_corrected_words' = n
                /\ analyzer' = TRUE
                /\ divisors' = [m \in 1..ScenarioOf(frequency_words).analyzed_len |->
                                   factorize(m)]
                /\ tree' = BKTree(Strings(frequency_words))
                /\ pc' = "done"
                /\ Enter("build", arg)
           ELSE /\ status' = "failed"
                /\ Raise("build", arg, e[1], e[2])
                /\ UNCHANGED <<word_cost, max_len, threshold,
                               number_of_corrected_words, analyzer, divisors, tree>>
    /\ UNCHANGED <<frequency_words, top, file, splitVars, total, word, clearVars, repeated,
                   correctVars, treeVars>>

\* split(text) is called on the splitter: the type check and cost = [0]
SplitBegin(v) ==
    /\ status = "ok" /\ ~analyzer /\ Callable
    /\ IF ~IsStr(v)
       THEN /\ Raise("split", v, "TypeError", 39)
            /\ SplitLocals(<<>>, <<>>)
       ELSE /\ Enter("split", v)
            /\ pc' = "forward"
            /\ SplitLocals(v.s, <<0>>)
    /\ UNCHANGED <<buildVars, total, word, clearVars, repeated, correctVars, treeVars>>

\* one iteration of the loop that builds the cost array
SplitForward ==
    /\ pc = "forward" /\ Len(cost) <= Len(text)
    /\ IF Candidates(cost, text, Len(cost)) = {}
       THEN /\ Raise("split", arg, "ValueError", 49)
            /\ UNCHANGED splitVars
       ELSE LET bm == best_match(cost, text, Len(cost))
            IN  /\ i' = Len(cost)
                /\ index' = Len(cost)
                /\ match_cost' = bm[1]
                /\ match_length' = bm[2]
                /\ cost' = Append(cost, bm[1])
                /\ UNCHANGED <<text, out, tokens, op, pc, arg, error, error_line>>
    /\ UNCHANGED <<buildVars, total, word, clearVars, repeated, correctVars, treeVars>>

\* the cost array is built: out = [], i = len(text)
SplitTurn ==
    /\ pc = "forward" /\ Len(cost) = Len(text) + 1
    /\ pc' = "backtrack"
    /\ out' = <<>>
    /\ i' = Len(text)
    /\ UNCHANGED <<text, cost, index, match_cost, match_length, tokens, op, arg,
                   error, error_line>>
    /\ UNCHANGED <<buildVars, total, word, clearVars, repeated, correctVars, treeVars>>

\* best_match as a variant that looks the substring up without lower-casing
best_match_cased(cst, txt, idx) ==
    MinPair({<<Add(cst[idx - ml], CostGet(SubSeq(txt, idx - ml, idx), Inf)), ml + 1>> :
                ml \in 0..(idx - Max(0, idx - max_len) - 1)})
\* a variant of the backtracking loop that recomputes the match on the text
\* as it is written, while the cost array was built on the lower-cased text
SplitBacktrackCased ==
    /\ pc = "backtrack" /\ i > 0
    /\ LET bm == best_match_cased(cost, text, i)
       IN  /\ index' = i
           /\ match_cost' = bm[1]
           /\ match_length' = bm[2]
           /\ IF bm[1] # cost[i + 1]
              THEN /\ Raise("split", arg, "AssertionError", 62)
                   /\ UNCHANGED <<out, i>>
              ELSE /\ out' = Append(out, Token(text, i, bm[2]))
                   /\ i' = i - bm[2]
                   /\ UNCHANGED <<op, pc, arg, error, error_line>>
    /\ UNCHANGED <<text, cost, tokens>>
    /\ UNCHANGED <<buildVars, total, word, clearVars, repeated, correctVars, treeVars>>
\* one iteration of the backtracking loop, with its assertion
SplitBacktrack ==
    /\ pc = "backtrack" /\ i > 0
    /\ LET bm == best_match(cost, text, i)
       IN  /\ index' = i
           /\ match_cost' = bm[1]
           /\ match_length' = bm[2]
           /\ IF bm[1] # cost[i + 1]
              THEN /\ Raise("split", arg, "AssertionError", 62)
                   /\ UNCHANGED <<out, i>>
              ELSE /\ out' = Append(out, Token(text, i, bm[2]))
                   /\ i' = i - bm[2]
                   /\ UNCHANGED <<op, pc, arg, error, error_line>>
    /\ UNCHANGED <<text, cost, tokens>>
    /\ UNCHANGED <<buildVars, total, word, clearVars, repeated, correctVars, treeVars>>

\* the loop ends: return list(reversed(out))
SplitReturn ==
    /\ pc = "backtrack" /\ i <= 0
    /\ tokens' = Reverse(out)
    /\ pc' = "done"
    /\ UNCHANGED <<text, cost, i, index, match_cost, match_length, out, op, arg,
                   error, error_line>>
    /\ UNCHANGED <<buildVars, total, word, clearVars, repeated, correctVars, treeVars>>

\* _get_total_cost(text)
GetTotalCost(v) ==
    /\ analyzer /\ Callable
    /\ IF ~IsStr(v) THEN Raise("total_cost", v, "TypeError", 39) /\ total' = 0
       ELSE IF ~CanSplit(v.s) THEN Raise("total_cost", v, "ValueError", 49) /\ total' = 0
       ELSE /\ Enter("total_cost", v)
            /\ pc' = "done"
            /\ total' = TotalCost(v.s)
    /\ SplitLocals(<<>>, <<>>)
    /\ word' = <<>>
    /\ ClearLocals({}, {})
    /\ repeated' = NoPart
    /\ CorrectLocals
    /\ TreeLocals
    /\ UNCHANGED buildVars

\* _get_clear_word(word) is called: the indices and the empty combination
ClearBegin(w) ==
    /\ analyzer /\ Callable
    /\ word' = w
    /\ IF ~CanSplit(w)
       THEN Raise("clear_word", Str(w), "ValueError", 49) /\ ClearLocals({}, {})
       ELSE /\ Enter("clear_word", Str(w))
            /\ pc' = "round"
            /\ ClearLocals(get_indices_incorrect_symbols(w), {{}})
    /\ SplitLocals(<<>>, <<>>)
    /\ total' = 0
    /\ repeated' = NoPart
    /\ CorrectLocals
    /\ TreeLocals
    /\ UNCHANGED buildVars

\* one round of the loop over key
ClearStep ==
    /\ pc = "round" /\ key <= Cardinality(indices)
    /\ \E r \in ClearRound(word, indices,
                           [key |-> key, all_combinations |-> all_combinations,
                            minimal_cost |-> minimal_cost,
                            cleared_word |-> cleared_word]) :
           /\ key' = r.key
           /\ all_combinations' = r.all_combinations
           /\ minimal_cost' = r.minimal_cost
           /\ cleared_word' = r.cleared_word
    /\ UNCHANGED <<buildVars, op, pc, arg, splitVars, total, word, indices, repeated,
                   correctVars, treeVars, error, error_line>>

\* the loop ends: return cleared_word
ClearReturn ==
    /\ pc = "round" /\ key > Cardinality(indices)
    /\ pc' = "done"
    /\ UNCHANGED <<buildVars, op, arg, splitVars, total, word, clearVars, repeated,
                   correctVars, treeVars, error, error_line>>

\* a variant that takes the divisors of the length out of the table
DetectConsuming(w) ==
    /\ analyzer /\ Callable
    /\ Enter("detect", Str(w))
    /\ pc' = "done"
    /\ word' = w
    /\ repeated' = DetectRepeatedWord(w, divisors)
    /\ divisors' = [m \in DOMAIN divisors |-> IF m = Len(w) THEN <<>> ELSE divisors[m]]
    /\ SplitLocals(<<>>, <<>>)
    /\ total' = 0
    /\ ClearLocals({}, {})
    /\ CorrectLocals
    /\ TreeLocals
    /\ UNCHANGED <<frequency_words, status, word_cost, max_len, threshold,
                   number_of_corrected_words, analyzer, top, tree, file>>
\* _detect_repeated_word(word)
Detect(w) ==
    /\ analyzer /\ Callable
    /\ Enter("detect", Str(w))
    /\ pc' = "done"
    /\ word' = w
    /\ repeated' = DetectRepeatedWord(w, divisors)
    /\ SplitLocals(<<>>, <<>>)
    /\ total' = 0
    /\ ClearLocals({}, {})
    /\ CorrectLocals
    /\ TreeLocals
    /\ UNCHANGED buildVars

\* _get_correct_words(word, clear_word)
GetCorrectWords(w, cw) ==
    /\ analyzer /\ Callable
    /\ clear_word' = cw
    /\ IF cw.given /\ cw.s # <<>>
       THEN IF ~CanSplit(cw.s)
            THEN /\ Raise("correct_words", Str(w), "ValueError", 49)
                 /\ cleaned' = cw.s
                 /\ word' = cw.s
                 /\ parts' = <<>>
                 /\ evaluated_words' = {}
                 /\ corrects' = {}
            ELSE /\ Enter("correct_words", Str(w))
                 /\ pc' = "done"
                 /\ cleaned' = cw.s
                 /\ word' = Collapsed(cw.s, divisors)
                 /\ parts' = Split(Collapsed(cw.s, divisors))
                 /\ evaluated_words' = Evaluated(Split(Collapsed(cw.s, divisors)), threshold)
                 /\ corrects' = CorrectWords(cw.s, divisors, threshold,
                                             number_of_corrected_words)
       ELSE IF ~CanSplit(w)
            THEN /\ Raise("correct_words", Str(w), "ValueError", 49)
                 /\ cleaned' = <<>>
                 /\ word' = w
                 /\ parts' = <<>>
                 /\ evaluated_words' = {}
                 /\ corrects' = {}
            ELSE \E c \in ClearWords(w) :
                 /\ Enter("correct_words", Str(w))
                 /\ pc' = "done"
                 /\ cleaned' = c
                 /\ word' = Collapsed(c, divisors)
                 /\ parts' = Split(Collapsed(c, divisors))
                 /\ evaluated_words' = Evaluated(Split(Collapsed(c, divisors)), threshold)
                 /\ corrects' = CorrectWords(c, divisors, threshold,
                                             number_of_corrected_words)
    /\ SplitLocals(<<>>, <<>>)
    /\ total' = 0
    /\ ClearLocals({}, {})
    /\ repeated' = NoPart
    /\ TreeLocals
    /\ UNCHANGED buildVars

\* get_correct_words(word, threshold, number_of_corrected_words) of
\* analyzer/word_analyzer.py; the words of the returned list are in corrects
TopGetCorrectWords(w, thr, n) ==
    /\ top /\ Callable
    /\ clear_word' = NoClear
    /\ IF ~CanSplit(w)
       THEN /\ Raise("get_correct_words", Str(w), "ValueError", 49)
            /\ cleaned' = <<>>
            /\ word' = w
            /\ parts' = <<>>
            /\ evaluated_words' = {}
            /\ corrects' = {}
       ELSE \E c \in get_clear_word(w) :
            /\ Enter("get_correct_words", Str(w))
            /\ pc' = "done"
            /\ cleaned' = c
            /\ word' = c
            /\ parts' = Split(c)
            /\ evaluated_words' = evaluated_words_top(Split(c), thr)
            /\ corrects' = FirstWords(evaluated_words_top(Split(c), thr), n)
    /\ SplitLocals(<<>>, <<>>)
    /\ total' = 0
    /\ ClearLocals({}, {})
    /\ repeated' = NoPart
    /\ TreeLocals
    /\ UNCHANGED buildVars

\* the call has returned or raised: its frame is gone
Return ==
    /\ pc \in {"done", "raised"}
    /\ pc' = "idle"
    /\ Enter("none", Str(<<>>))
    /\ SplitLocals(<<>>, <<>>)
    /\ total' = 0
    /\ word' = <<>>
    /\ ClearLocals({}, {})
    /\ repeated' = NoPart
    /\ CorrectLocals
    /\ TreeLocals
    /\ UNCHANGED buildVars

Next ==
    \/ Construct
    \/ \E given \in BOOLEAN : ConstructWordAnalyzer(given)
    \/ \E given \in BOOLEAN : BuildBkTree(given)
    \/ \E f \in OtherFiles : Overwrite(f)
    \/ \E thr \in 1..MaxThreshold : \E n \in 1..MaxCorrected : Build(thr, n)
    \/ \E v \in Values(frequency_words) : SplitBegin(v)
    \/ SplitForward
    \/ SplitTurn
    \/ SplitBacktrack
    \/ SplitReturn
    \/ \E v \in Values(frequency_words) : GetTotalCost(v)
    \/ \E w \in Texts(frequency_words) : ClearBegin(w)
    \/ ClearStep
    \/ ClearReturn
    \/ \E w \in Texts(frequency_words) : Detect(w)
    \/ \E w \in Texts(frequency_words) : \E cw \in ClearArgs(w) : GetCorrectWords(w, cw)
    \/ \E w \in Texts(frequency_words) : \E thr \in 1..MaxThreshold :
           \E n \in 1..MaxCorrected : TopGetCorrectWords(w, thr, n)
    \/ Return

Spec == Init /\ [][Next]_vars

----------------------------------------------------------------------------
(* The claims *)

RECURSIVE PartitionsOf(_)
\* every partition of t into contiguous non-empty substrings
PartitionsOf(t) ==
    IF t = <<>> THEN {<<>>}
    ELSE UNION {{<<SubSeq(t, 1, k)>> \o p : p \in PartitionsOf(SubSeq(t, k + 1, Len(t)))} :
                   k \in 1..Len(t)}

RECURSIVE DpCost(_)
\* the summed cost of a partition as the forward pass charges it: the cost
\* of the lower-cased token, infinity for an unknown token
DpCost(ps) ==
    IF ps = <<>> THEN 0 ELSE Add(CostGet(Lower(Head(ps)), Inf), DpCost(Tail(ps)))

SplitDone == op = "split" /\ pc = "done"

\* C1: no partition of the text into contiguous non-empty substrings has a
\* strictly lower summed cost (word cost looked up lower-cased, infinity for
\* an unknown token) than the partition split returns.
C1_SplitMinimal ==
    SplitDone => \A p \in PartitionsOf(text) : DpCost(tokens) <= DpCost(p)
\* a split whose result is finite and strictly cheaper than another finite partition
C1_Witness ==
    /\ SplitDone
    /\ DpCost(tokens) < Inf
    /\ \E p \in PartitionsOf(text) : DpCost(p) < Inf /\ DpCost(tokens) < DpCost(p)

\* C2: the tokens returned by split, concatenated in order, are the text that
\* was passed, character by character and with its case.
C2_SplitConcat == SplitDone => (Concat(tokens) = text /\ text = arg.s)
\* a split of a text with an upper-case character into several tokens
C2_Witness == SplitDone /\ Len(tokens) >= 2 /\ "A" \in Range(text) /\ "a" \in Range(text)

\* the lengths of the candidates of the last best_match call whose cost is
\* the cost it returned
TiedLengths == {c[2] : c \in {d \in Candidates(cost, text, index) : d[1] = match_cost}}
MatchMade == op = "split" /\ pc \in {"forward", "backtrack", "done"} /\ index > 0

C4_SplitInput ==
    op = "split" =>
        /\ ~arg.isstr => (pc = "raised" /\ error = "TypeError" /\ tokens = <<>> /\ out = <<>>)
        /\ arg = Str(<<>>) => (pc # "raised" /\ error = "none")
        /\ (arg = Str(<<>>) /\ pc = "done") => tokens = <<>>
\* split was called on a non-string
C4_Witness == op = "split" /\ ~arg.isstr /\ pc = "raised" /\ error = "TypeError"

EmptyOrNone(words) == words.kind = "None" \/ words.items = <<>>
Constructing == op \in {"init", "build", "analyzer_init"}

\* C5: the constructor fails for a word list that is [] or None (ValueError
\* from TextSplitter) or has an element that is not a string (TypeError), and
\* then no cost table and no max length exist; through WordAnalyzer.__init__
\* the failure is a TypeError or a ValueError too.
C5_CtorRejects ==
    (status # "new" /\ (EmptyOrNone(frequency_words) \/ ~AllStr(frequency_words))) =>
        /\ status = "failed" /\ word_cost = NoCost /\ max_len = 0 /\ ~analyzer
        /\ Constructing => (pc = "raised" /\ error \in {"ValueError", "TypeError"})
        /\ (op \in {"init", "build"} /\ EmptyOrNone(frequency_words))
               => error = "ValueError"
        /\ (op \in {"init", "build"} /\ ~EmptyOrNone(frequency_words))
               => error = "TypeError"
\* TextSplitter was handed a list with a non-string element
C5_Witness ==
    /\ op = "init" /\ frequency_words = FW_NonStr
    /\ status = "failed" /\ error = "TypeError"

\* C6 as claimed: the constructor succeeds for every non-empty list of
\* strings, one-word lists included, and yields a cost for every listed word
\* and the max word length.
C6_CtorAccepts ==
    (status # "new" /\ ~EmptyOrNone(frequency_words) /\ AllStr(frequency_words)) =>
        /\ status = "ok"
        /\ DOMAIN word_cost = Range(Strings(frequency_words))
        /\ \A w \in Range(Strings(frequency_words)) : Len(w) <= max_len

CorrectDone == op = "correct_words" /\ pc = "done"

\* C7 as claimed: the returned set contains the cleaned word (clear_word if
\* supplied, else the result of _get_clear_word), repeated part or not.
C7_CleanedInResult == CorrectDone => cleaned \in corrects
\* C7 as amended: the returned set contains the word after the collapse of a
\* repeated part (the repeated part if one is detected in the cleaned word,
\* else the cleaned word) unless that word is empty, and the result is then
\* the empty set.
C7_FallbackInResult ==
    CorrectDone =>
        /\ word = (IF DetectRepeatedWord(cleaned, divisors).found
                   THEN DetectRepeatedWord(cleaned, divisors).part ELSE cleaned)
        /\ word # <<>> => word \in corrects
        /\ word = <<>> => corrects = {}
\* a repeated part was collapsed: the part is returned, the cleaned word is not
C7_Witness ==
    /\ CorrectDone
    /\ DetectRepeatedWord(cleaned, divisors).found
    /\ word # cleaned /\ word \in corrects /\ cleaned \notin corrects

TehCorrected == CorrectDone /\ frequency_words = FW_The /\ arg.s = W_teh

TopMatches(ps, n) ==
    FirstWords(UNION {{[cost |-> TotalCost(sw), word |-> sw, at |-> <<>>] :
                          sw \in SimilarWords(ps[k])} : k \in 1..Len(ps)}, n)

\* C9 as claimed: with fewer than 2 parts the result holds the cleaned word
\* and every approximate match of the part that is among the
\* number_of_corrected_words cheapest.
C9_FewPartsKeepMatches ==
    (CorrectDone /\ Len(parts) < minimum_parts) =>
        TopMatches(parts, number_of_corrected_words) \subseteq corrects

\* the minimum, over all subsets of the suspect positions, of the cost scored
\* for the word with the substitution at that subset
ExhaustiveMin(w) ==
    LET cs == {TotalCost(Lower(leet_transform(w, c))) :
                  c \in SUBSET get_indices_incorrect_symbols(w)}
    IN  CHOOSE m \in cs : \A c \in cs : m <= c

ClearDone == op = "clear_word" /\ pc = "done"

\* C10 as claimed: the cost of the word _get_clear_word returns is the
\* minimum over all subsets of the suspect positions.
C10_BeamIsExhaustive ==
    ClearDone => TotalCost(Lower(cleared_word)) = ExhaustiveMin(word)
\* C10 as amended: the cost of the returned word (scored on the lower-cased
\* string) is minimal_cost, the least cost scored by the beam, and is never
\* below the exhaustive minimum; it is the exhaustive minimum for every word
\* with at most 4 suspect positions.
C10_ExhaustiveUpToFour ==
    ClearDone =>
        /\ TotalCost(Lower(cleared_word)) = minimal_cost
        /\ minimal_cost >= ExhaustiveMin(word)
        /\ Cardinality(indices) <= 4 => minimal_cost = ExhaustiveMin(word)
\* a word with 4 suspect positions whose substitution lowers the cost
C10_Witness ==
    /\ ClearDone /\ Cardinality(indices) = 4
    /\ minimal_cost < TotalCost(Lower(word))
    /\ cleared_word # word

RECURSIVE RepeatOf(_, _)
\* the string p repeated n times
RepeatOf(p, n) == IF n <= 0 THEN <<>> ELSE p \o RepeatOf(p, n - 1)
\* w is word[0:d] repeated len(w)/d times
ExactRepeat(w, d) ==
    /\ d >= 1 /\ d <= Len(w) /\ Len(w) % d = 0
    /\ w = RepeatOf(SubSeq(w, 1, d), Len(w) \div d)
\* the divisors recorded for the length of w, in their order
RecordedDivisors(w) == IF Len(w) \in DOMAIN divisors THEN divisors[Len(w)] ELSE <<>>

DetectDone == op = "detect" /\ pc = "done"

InvalidFile(f) == f.kind \in {"empty", "text"} \/ (f.kind = "pickle" /\ f.cls # "BKTree")
\* the tree over the frequency words
FreshTree == BKTree(Strings(frequency_words))

\* C12 as claimed: a call of build_bk_tree with the name of an existing file
\* that holds no valid tree does not fail, and returns a tree equal to a tree
\* freshly built over the frequency words.
C12_InvalidFileRebuilds ==
    (op = "build_bk_tree" /\ pc \in {"done", "raised"} /\ arg = TreeFilename
        /\ InvalidFile(file))
        => (pc = "done" /\ error = "none" /\ returned = FreshTree)

AsBuilt ==
    status = "ok" =>
        /\ word_cost = BuildWordCost(Strings(frequency_words))
        /\ max_len = BuildMaxLen(Strings(frequency_words))
        /\ analyzer =>
               /\ divisors = [m \in 1..ScenarioOf(frequency_words).analyzed_len |->
                                  factorize(m)]
               /\ tree = FreshTree
\* the result of a returned call is the result of its input on the shared
\* structures as they were built, whatever calls came before
ResultOfInput ==
    /\ (op = "split" /\ pc = "done") => tokens = Split(arg.s)
    /\ (op = "total_cost" /\ pc = "done") => total = TotalCost(arg.s)
    /\ (op = "clear_word" /\ pc = "done") => cleared_word \in ClearWords(arg.s)
    /\ (op = "detect" /\ pc = "done") =>
           repeated = DetectRepeatedWord(arg.s, [m \in 1..ScenarioOf(frequency_words).analyzed_len |->
                                                    factorize(m)])
    /\ (op = "correct_words" /\ pc = "done") =>
           /\ cleaned \in (IF clear_word.given /\ clear_word.s # <<>> THEN {clear_word.s}
                            ELSE ClearWords(arg.s))
           /\ corrects = CorrectWords(cleaned, divisors, threshold,
                                      number_of_corrected_words)
\* a step of the constructed object leaves the shared structures as they are
SharedUnchanged ==
    status = "ok" =>
        UNCHANGED <<word_cost, max_len, divisors, tree, threshold,
                    number_of_corrected_words, frequency_words, status>>

ClearRunning == op = "clear_word" /\ pc = "round"
\* the least cost scored in the round that starts in this state
RoundMin ==
    LET cs == {a.cost : a \in Scored(word, all_combinations)}
    IN  CHOOSE m \in cs : \A c \in cs : m <= c
\* a round of the loop
RoundStep == ClearRunning /\ key' = key + 1

CheapestFive ==
    LET sc == Scored(word, all_combinations)
    IN  {K \in SUBSET sc :
            /\ Cardinality(K) <= BeamWidth
            /\ \A a \in K : \A b \in sc \ K : a.cost <= b.cost}

\* C16: at the start of round k = 0 .. len(indices) the frontier is not empty
\* (so the best element of the sorted list exists) and each of its subsets has
\* exactly k positions, all of them suspect indices of the word and so within
\* [0, len(word)); each subset of the next frontier is one of at most 5
\* cheapest subsets of the round with one more position; the loop ends after
\* exactly len(indices) + 1 rounds.
C16_FrontierOfRound ==
    /\ []((ClearRunning /\ key <= Cardinality(indices)) =>
             /\ all_combinations # {}
             /\ \A c \in all_combinations : Cardinality(c) = key /\ c \subseteq indices)
    /\ []((op = "clear_word" /\ pc \in {"round", "done"}) =>
             /\ indices \subseteq 0..(Len(word) - 1)
             /\ \A x \in indices : IsIncorrectSymbol(word[x + 1])
             /\ key <= Cardinality(indices) + 1)
    /\ [](ClearDone => key = Cardinality(indices) + 1)
    /\ [][RoundStep =>
             \E K \in CheapestFive :
                 \A c \in all_combinations' :
                     \E a \in K : \E x \in indices \ a.comb : c = a.comb \cup {x}]_vars
\* round 3 of a word with 5 suspect positions: the 5 pairs kept give fewer
\* than the 10 subsets of 3 positions
C16_Witness ==
    /\ ClearRunning /\ Cardinality(indices) = 5 /\ key = 3
    /\ all_combinations # {} /\ Cardinality(all_combinations) < 10

\* the ranges [i, j) of parts with 2 <= j - i <= threshold and j <= len(parts)
ProbedRanges ==
    {rg \in (0..Len(parts)) \X (0..Len(parts)) :
        rg[2] - rg[1] >= 2 /\ rg[2] - rg[1] <= threshold}
\* concat(parts[0:i]) + s + concat(parts[j:])
Spliced(ii, s, jj) ==
    Concat(SubSeq(parts, 1, ii)) \o s \o Concat(SubSeq(parts, jj + 1, Len(parts)))

\* C17: with two or more parts the candidates recorded by _get_correct_words
\* are exactly the words concat(parts[0:i]) + s + concat(parts[j:]), each with
\* its total cost, for every range [i, j) of 2 to threshold parts and every
\* similar word s of the probe concat(parts[i:j]).
C17_SpliceWholeRange ==
    (CorrectDone /\ Len(parts) >= minimum_parts) =>
        /\ \A e \in evaluated_words :
               /\ <<e.at[1], e.at[2] + 1>> \in ProbedRanges
               /\ \E s \in SimilarWords(Concat(SubSeq(parts, e.at[1] + 1, e.at[2] + 1))) :
                      e.word = Spliced(e.at[1], s, e.at[2] + 1)
               /\ e.cost = TotalCost(e.word)
        /\ \A rg \in ProbedRanges :
               \A s \in SimilarWords(Concat(SubSeq(parts, rg[1] + 1, rg[2]))) :
                   \E e \in evaluated_words :
                       e.at = <<rg[1], rg[2] - 1>> /\ e.word = Spliced(rg[1], s, rg[2])
\* candidates were recorded for a range after the first part and for a range
\* before the last part
C17_Witness ==
    /\ CorrectDone /\ Len(parts) >= 3
    /\ \E e \in evaluated_words : e.at[1] > 0
    /\ \E e \in evaluated_words : e.at[2] + 1 < Len(parts)

\* C18 as claimed: every candidate that get_correct_words of
\* analyzer/word_analyzer.py builds for a probed range [i, j) and a similar
\* word s is concat(parts[0:i]) + s + concat(parts[j:]): no probed part stays
\* next to its replacement.
C18_ProbedPartsReplaced ==
    (op = "get_correct_words" /\ pc = "done") =>
        \A e \in evaluated_words :
            \E s \in get_similar_words(Concat(SubSeq(parts, e.at[1] + 1, e.at[2] + 1))) :
                e.word = Spliced(e.at[1], s, e.at[2] + 1)

\* C19 as claimed: for every accepted frequency list, duplicated words
\* included, the cost stored for the word at position i is the cost of rank
\* i, log((i + 1) * log(N)), and so the stored costs do not decrease along
\* the list.
C19_CostOfRank ==
    status = "ok" =>
        LET ws == Strings(frequency_words)
        IN  /\ \A k \in 1..Len(ws) : word_cost[ws[k]] = ZipfCost(k - 1, Len(ws))
            /\ \A k \in 1..Len(ws) : \A m \in (k + 1)..Len(ws) :
                   word_cost[ws[k]] <= word_cost[ws[m]]

\* C20 as claimed: _get_total_cost(text) is the least sum, over all partitions
\* of the text into contiguous non-empty substrings, of the word costs of the
\* tokens with default_cost for an unknown token.
C20_TotalCostMinimal ==
    (op = "total_cost" /\ pc = "done") =>
        \A p \in PartitionsOf(arg.s) : total <= SumCosts(p)

\* split is in its backtracking loop
Backtracking == op = "split" /\ pc = "backtrack"
\* at a backtracking position the recomputed match has the stored cost and a
\* length inside the window
MatchAsStored ==
    (Backtracking /\ i > 0) =>
        LET bm == best_match(cost, text, i)
        IN  /\ bm[1] = cost[i + 1]
            /\ bm[2] \in 1..Min(i, max_len)
\* an iteration of the backtracking loop takes i down, and not below 0; the
\* loop is left at 0 only
BacktrackStep ==
    /\ (Backtracking /\ pc' = "backtrack") =>
           /\ i' < i
           /\ i' >= 0
           /\ i' = i - match_length'
           /\ out' = Append(out, Token(text, i, match_length'))
    /\ (Backtracking /\ pc' # "backtrack") => (pc' = "done" /\ i = 0)

\* C21: in split the assertion of the backtracking loop never fails and the
\* loop ends: at every backtracking position i > 0 the recomputed best match
\* has the cost stored in cost[i], the infinite cost included, and a length
\* from 1 to min(i, max_len), so every iteration takes i down and the loop is
\* left with i = 0 exactly.
C21_BacktrackAgrees ==
    /\ [](error # "AssertionError" /\ (Backtracking => i \in 0..Len(text)) /\ MatchAsStored)
    /\ [][BacktrackStep]_vars
\* the loop has taken a token of infinite cost and stands at a position
\* i > 0 whose stored cost is the infinite one
C21_Witness ==
    /\ Backtracking /\ out # <<>> /\ match_cost = Inf
    /\ i > 0 /\ cost[i + 1] = Inf

====
